---------------------------- MODULE Spec2Model ----------------------------
(***************************************************************************)
(* Package-set resolution of kairos-init.  The repository holds two        *)
(* diverged copies of the resolver and of its catalogs:                    *)
(*   - src/pkg/values/packagemaps.go   (definitions suffixed _pm)          *)
(*   - src/Dockerfile, lines 25-742    (definitions suffixed _df)          *)
(* A behaviour fixes one copy (impl) and one System descriptor and runs    *)
(* up to MaxCalls calls of GetPackages on it; between two calls the        *)
(* process-wide config.DefaultConfig.TrustedBoot may be rewritten.         *)
(*                                                                         *)
(* A VersionMap is a Go map[string][]string.  It is written here as the    *)
(* sequence of its entries in the order of the composite literal, and      *)
(* `for constraint, values := range packages` visits the entries in an     *)
(* order the language leaves unspecified: the Range actions pick any entry *)
(* not visited yet.                                                        *)
(*                                                                         *)
(* Three specifications share the module.  Spec is the one above.          *)
(* SpecTemplate runs one call of PackageListToTemplate on a list of at     *)
(* most MaxPackages entries.  SpecHeap runs one call of GetPackages in     *)
(* each of MaxGoroutines goroutines, with slices as headers over backing   *)
(* arrays, and lets the callers write into the lists they were returned.   *)
(***************************************************************************)
EXTENDS Integers, Sequences, FiniteSets, TLC

\* ---- Enumerations of package values (declared outside src/) ----

Common == "common"

ArchCommon == "ArchCommon"
ArchAMD64 == "ArchAMD64"
ArchARM64 == "ArchARM64"

Ubuntu == "Ubuntu"
Debian == "Debian"
Fedora == "Fedora"
Arch == "Arch"

DebianFamily == "DebianFamily"
RedHatFamily == "RedHatFamily"
SUSEFamily == "SUSEFamily"
AlpineFamily == "AlpineFamily"
ArchFamily == "ArchFamily"

\* ---- The catalogs of src/pkg/values/packagemaps.go ----

CommonPackages_pm ==
    <<"file", "gawk", "iptables", "less", "nano", "sudo", "tar", "zstd",
      "rsync", "systemd", "dbus", "lvm2", "jq", "dosfstools", "e2fsprogs",
      "parted">>

ImmucorePackages_pm ==
    DebianFamily :> (
      ArchCommon :> <<
        [constraint |-> Common, values |->
          <<"dracut", "dracut-network", "isc-dhcp-common", "isc-dhcp-client",
            "systemd-sysv", "cloud-guest-utils">>] >>) @@
    Ubuntu :> (
      ArchAMD64 :> <<
        [constraint |-> ">=22.04", values |->
          <<"dracut-live">>] >>) @@
    Debian :> (
      ArchAMD64 :> <<
        [constraint |-> Common, values |->
          <<"dracut-live">>] >>) @@
    RedHatFamily :> (
      ArchAMD64 :> <<
        [constraint |-> Common, values |->
          <<"dracut", "dracut-live", "dracut-network", "dracut-squash",
            "squashfs-tools", "dhcp-client">>] >>)

KernelPackages_pm ==
    Ubuntu :> (
      ArchAMD64 :> <<
        [constraint |-> ">=20.04, != 24.10", values |->
          <<"linux-image-generic-hwe-{{.version}}">>],
        [constraint |-> "24.10", values |->
          <<"linux-image-generic-hwe-24.04">>] >>) @@
    Debian :> (
      ArchAMD64 :> <<
        [constraint |-> Common, values |->
          <<"linux-image-amd64", "firmware-linux-free">>] >> @@
      ArchARM64 :> <<
        [constraint |-> Common, values |->
          <<"linux-image-arm64", "firmware-linux-free">>] >>) @@
    RedHatFamily :> (
      ArchCommon :> <<
        [constraint |-> Common, values |->
          <<"kernel", "kernel-modules", "kernel-modules-extra">>] >>)

BasePackages_pm ==
    DebianFamily :> (
      ArchCommon :> <<
        [constraint |-> Common, values |->
          <<"ca-certificates", "curl", "binutils", "conntrack",
            "console-setup", "coreutils", "cryptsetup", "debianutils",
            "ethtool", "fuse3", "gdisk", "gnupg", "gnupg1-l10n", "haveged",
            "iproute2", "iptables", "iputils-ping", "krb5-locales", "libatm1",
            "libglib2.0-data", "libgpm2", "libldap-common", "libnss-systemd",
            "libpam-cap", "libsasl2-modules", "mdadm", "nbd-client",
            "ncurses-term", "neovim", "nfs-common", "nftables", "open-iscsi",
            "openssh-server", "open-vm-tools", "os-prober", "patch", "pigz",
            "pkg-config", "psmisc", "publicsuffix", "python3-pynvim",
            "shared-mime-info", "snapd", "systemd-timesyncd", "xauth", "xclip",
            "xdg-user-dirs", "xxd", "xz-utils", "zerofree">>],
        [constraint |-> "bookworm", values |->
          <<"systemd-cryptsetup">>],
        [constraint |-> "testing", values |->
          <<"systemd-cryptsetup">>] >>) @@
    SUSEFamily :> (
      ArchCommon :> <<
        [constraint |-> Common, values |->
          <<"curl">>] >>) @@
    ArchFamily :> (
      ArchCommon :> <<
        [constraint |-> Common, values |->
          <<"curl">>] >>) @@
    AlpineFamily :> (
      ArchCommon :> <<
        [constraint |-> Common, values |->
          <<"curl">>] >>) @@
    Debian :> (
      ArchCommon :> <<
        [constraint |-> Common, values |->
          <<"systemd-resolved", "nohang", "polkitd">>] >>) @@
    Ubuntu :> (
      ArchCommon :> <<
        [constraint |-> Common, values |->
          <<"fdisk", "conntrack", "console-data", "cloud-guest-utils",
            "gettext", "systemd-container", "ubuntu-advantage-tools",
            "tpm2-tools", "dmsetup", "networkd-dispatcher", "packagekit-tools",
            "publicsuffix", "xdg-user-dirs", "zfsutils-linux">>],
        [constraint |-> ">=24.04", values |->
          <<"systemd-resolved">>] >>) @@
    RedHatFamily :> (
      ArchCommon :> <<
        [constraint |-> Common, values |->
          <<"gdisk", "audit", "cracklib-dicts", "cloud-utils-growpart",
            "device-mapper", "openssh-server", "openssh-clients", "polkit",
            "qemu-guest-agent", "systemd-resolved", "which", "cryptsetup">>] >>) @@
    Fedora :> (
      ArchCommon :> <<
        [constraint |-> Common, values |->
          <<"haveged", "systemd-networkd">>] >>)

GrubPackages_pm ==
    DebianFamily :> (
      ArchAMD64 :> <<
        [constraint |-> Common, values |->
          <<"grub2", "grub-efi-amd64-bin", "grub-efi-amd64-signed",
            "grub-pc-bin", "grub2-common", "kbd", "lldpd", "shim-signed",
            "snmpd", "squashfs-tools">>] >> @@
      ArchARM64 :> <<
        [constraint |-> Common, values |->
          <<"grub-efi-arm64", "grub-efi-arm64-bin", "grub-efi-arm64-signed">>] >>) @@
    RedHatFamily :> (
      ArchCommon :> <<
        [constraint |-> Common, values |->
          <<"grub2">>] >> @@
      ArchAMD64 :> <<
        [constraint |-> Common, values |->
          <<"grub2-efi-x64", "grub2-efi-x64-modules", "grub2-pc", "shim-x64">>] >> @@
      ArchARM64 :> <<
        [constraint |-> Common, values |->
          <<"grub2-efi-aa64", "grub2-efi-aa64-modules", "shim-aa64">>] >>)

SystemdPackages_pm ==
    Ubuntu :> (
      ArchCommon :> <<
        [constraint |-> Common, values |->
          <<"systemd">>],
        [constraint |-> ">=24.04", values |->
          <<"iucode-tool", "kmod", "linux-base", "systemd-boot">>] >>)

\* ---- The catalogs of src/Dockerfile ----

CommonPackages_df ==
    <<"file", "gawk", "iptables", "less", "nano", "sudo", "tar", "zstd",
      "rsync", "lvm2", "jq", "dosfstools", "e2fsprogs", "parted">>

ImmucorePackages_df ==
    DebianFamily :> (
      ArchCommon :> <<
        [constraint |-> Common, values |->
          <<"dracut", "dracut-network", "isc-dhcp-common", "isc-dhcp-client",
            "cloud-guest-utils">>] >>) @@
    Ubuntu :> (
      ArchCommon :> <<
        [constraint |-> ">=22.04", values |->
          <<"dracut-live">>] >>) @@
    Debian :> (
      ArchCommon :> <<
        [constraint |-> Common, values |->
          <<"dracut-live">>] >>) @@
    RedHatFamily :> (
      ArchCommon :> <<
        [constraint |-> Common, values |->
          <<"dracut", "dracut-live", "dracut-network", "dracut-squash",
            "squashfs-tools", "dhcp-client">>] >>) @@
    SUSEFamily :> (
      ArchCommon :> <<
        [constraint |-> Common, values |->
          <<"dracut", "squashfs", "dhcp-client">>] >>)

KernelPackages_df ==
    Ubuntu :> (
      ArchCommon :> <<
        [constraint |-> ">=20.04, != 24.10", values |->
          <<"linux-image-generic-hwe-{{.version}}">>],
        [constraint |-> "24.10", values |->
          <<"linux-image-generic-hwe-24.04">>] >>) @@
    Debian :> (
      ArchAMD64 :> <<
        [constraint |-> Common, values |->
          <<"linux-image-amd64", "firmware-linux-free">>] >> @@
      ArchARM64 :> <<
        [constraint |-> Common, values |->
          <<"linux-image-arm64", "firmware-linux-free">>] >>) @@
    RedHatFamily :> (
      ArchCommon :> <<
        [constraint |-> Common, values |->
          <<"kernel", "kernel-modules", "kernel-modules-extra">>] >>) @@
    AlpineFamily :> (
      ArchCommon :> <<
        [constraint |-> Common, values |->
          <<"linux-lts">>] >>) @@
    SUSEFamily :> (
      ArchCommon :> <<
        [constraint |-> Common, values |->
          <<"kernel-default">>] >>)

KernelPackagesTrustedBoot_df ==
    Debian :> (
      ArchAMD64 :> <<
        [constraint |-> Common, values |->
          <<"linux-image-amd64", "firmware-linux-free">>] >> @@
      ArchARM64 :> <<
        [constraint |-> Common, values |->
          <<"linux-image-arm64", "firmware-linux-free">>] >>) @@
    RedHatFamily :> (
      ArchCommon :> <<
        [constraint |-> Common, values |->
          <<"kernel", "kernel-modules", "kernel-modules-extra">>] >>) @@
    AlpineFamily :> (
      ArchCommon :> <<
        [constraint |-> Common, values |->
          <<"linux-lts">>] >>) @@
    SUSEFamily :> (
      ArchCommon :> <<
        [constraint |-> Common, values |->
          <<"kernel-default">>] >>)

BasePackages_df ==
    DebianFamily :> (
      ArchCommon :> <<
        [constraint |-> Common, values |->
          <<"ca-certificates", "curl", "binutils", "conntrack",
            "console-setup", "coreutils", "cryptsetup", "debianutils",
            "ethtool", "fuse3", "gdisk", "gnupg", "gnupg1-l10n", "haveged",
            "iproute2", "iptables", "iputils-ping", "krb5-locales", "libatm1",
            "libglib2.0-data", "libgpm2", "libldap-common", "libnss-systemd",
            "libpam-cap", "libsasl2-modules", "mdadm", "nbd-client",
            "ncurses-term", "neovim", "nfs-common", "nftables", "open-iscsi",
            "openssh-server", "open-vm-tools", "os-prober", "patch", "pigz",
            "pkg-config", "psmisc", "publicsuffix", "python3-pynvim",
            "shared-mime-info", "snapd", "systemd", "systemd-timesyncd",
            "systemd-sysv", "xauth", "xclip", "xdg-user-dirs", "xxd",
            "xz-utils", "zerofree">>] >>) @@
    SUSEFamily :> (
      ArchCommon :> <<
        [constraint |-> Common, values |->
          <<"curl", "bash-completion", "conntrack-tools", "cryptsetup",
            "coreutils", "device-mapper", "fail2ban", "findutils", "growpart",
            "gptfdisk", "haveged", "htop", "iproute2", "iputils",
            "issue-generator", "logrotate", "lsscsi", "mdadm",
            "multipath-tools", "open-iscsi", "openssh", "open-vm-tools",
            "pigz", "policycoreutils", "polkit", "procps", "qemu-guest-agent",
            "strace", "systemd", "systemd-network", "timezone", "tmux", "vim",
            "which", "tpm2*">>] >>) @@
    AlpineFamily :> (
      ArchCommon :> <<
        [constraint |-> Common, values |->
          <<"curl", "bash", "bash-completion", "blkid", "cloud-utils-growpart",
            "bonding", "bridge", "busybox-openrc", "ca-certificates",
            "connman", "conntrack-tools", "coreutils", "cryptsetup",
            "device-mapper-udev", "dbus", "dmidecode", "dosfstools",
            "e2fsprogs", "e2fsprogs-extra", "efibootmgr", "eudev",
            "eudev-hwids", "fail2ban", "findutils", "findmnt", "gcompat",
            "gettext", "haveged", "htop", "hvtools", "iproute2", "irqbalance",
            "iscsi-scst", "kbd-bkeymaps", "libc6-compat", "libusb",
            "lm-sensors", "logrotate", "lsscsi", "lvm2-extra", "mdadm",
            "mdadm-misc", "mdadm-udev", "multipath-tools", "ncurses",
            "ncurses-terminfo", "nfs-utils", "open-iscsi", "openrc",
            "openssh-client", "openssh-server", "open-vm-tools",
            "open-vm-tools-deploypkg", "open-vm-tools-guestinfo",
            "open-vm-tools-static", "open-vm-tools-vmbackup", "procps",
            "qemu-guest-agent", "rbd-nbd", "sgdisk", "smartmontools",
            "squashfs-tools", "strace", "tzdata", "util-linux", "vim", "which",
            "wireguard-tools", "wpa_supplicant", "xfsprogs", "xfsprogs-extra",
            "xz">>] >>) @@
    RedHatFamily :> (
      ArchCommon :> <<
        [constraint |-> Common, values |->
          <<"gdisk", "audit", "cracklib-dicts", "cloud-utils-growpart",
            "device-mapper", "openssh-server", "openssh-clients", "polkit",
            "qemu-guest-agent", "systemd", "systemd-resolved", "which",
            "cryptsetup">>] >>) @@
    Debian :> (
      ArchCommon :> <<
        [constraint |-> Common, values |->
          <<"systemd-resolved", "nohang", "polkitd">>],
        [constraint |-> ">=13", values |->
          <<"systemd-cryptsetup">>] >>) @@
    Ubuntu :> (
      ArchCommon :> <<
        [constraint |-> Common, values |->
          <<"fdisk", "conntrack", "console-data", "cloud-guest-utils",
            "gettext", "systemd-container", "ubuntu-advantage-tools",
            "tpm2-tools", "dmsetup", "networkd-dispatcher", "packagekit-tools",
            "publicsuffix", "xdg-user-dirs", "zfsutils-linux">>],
        [constraint |-> ">=24.04", values |->
          <<"systemd-resolved">>] >>) @@
    Fedora :> (
      ArchCommon :> <<
        [constraint |-> Common, values |->
          <<"haveged", "systemd-networkd">>] >>)

GrubPackages_df ==
    DebianFamily :> (
      ArchCommon :> <<
        [constraint |-> Common, values |->
          <<"kbd", "lldpd", "shim-signed", "snmpd", "squashfs-tools">>] >> @@
      ArchAMD64 :> <<
        [constraint |-> Common, values |->
          <<"grub2", "grub-efi-amd64-bin", "grub-efi-amd64-signed",
            "grub-pc-bin", "grub2-common">>] >> @@
      ArchARM64 :> <<
        [constraint |-> Common, values |->
          <<"grub-efi-arm64", "grub-efi-arm64-bin", "grub-efi-arm64-signed">>] >>) @@
    RedHatFamily :> (
      ArchCommon :> <<
        [constraint |-> Common, values |->
          <<"grub2">>] >> @@
      ArchAMD64 :> <<
        [constraint |-> Common, values |->
          <<"grub2-efi-x64", "grub2-efi-x64-modules", "grub2-pc", "shim-x64">>] >> @@
      ArchARM64 :> <<
        [constraint |-> Common, values |->
          <<"grub2-efi-aa64", "grub2-efi-aa64-modules", "shim-aa64">>] >>) @@
    AlpineFamily :> (
      ArchAMD64 :> <<
        [constraint |-> Common, values |->
          <<"grub-bios">>] >> @@
      ArchCommon :> <<
        [constraint |-> Common, values |->
          <<"grub", "grub-efi">>] >>) @@
    SUSEFamily :> (
      ArchCommon :> <<
        [constraint |-> Common, values |->
          <<"nethogs", "patch", "shim", "iw">>] >> @@
      ArchAMD64 :> <<
        [constraint |-> Common, values |->
          <<"grub2-i386-pc", "grub2-x86_64-efi", "kernel-firmware-all">>] >> @@
      ArchARM64 :> <<
        [constraint |-> Common, values |->
          <<"bcm43xx-firmware", "grub2-arm64-efi", "kernel-firmware-ath10k",
            "kernel-firmware-ath11k", "kernel-firmware-atheros",
            "kernel-firmware-bluetooth", "kernel-firmware-brcm",
            "kernel-firmware-iwlwifi", "kernel-firmware-network",
            "kernel-firmware-realtek", "kernel-firmware-serial",
            "kernel-firmware-usb-network">>] >>) @@
    Ubuntu :> (
      ArchCommon :> <<
        [constraint |-> Common, values |->
          <<"zfsutils-linux">>] >>)

SystemdPackages_df ==
    Ubuntu :> (
      ArchCommon :> <<
        [constraint |-> Common, values |->
          <<"systemd">>],
        [constraint |-> ">=24.04", values |->
          <<"iucode-tool", "kmod", "linux-base", "systemd-boot">>] >>)

\* ---- Versions and constraints (github.com/hashicorp/go-version) ----

\* semver.NewVersion on the version strings of the model: the dotted numbers
\* become integer segments, padded to three; anything else is an error.
NewVersion(v) ==
    CASE v = "12"    -> [err |-> FALSE, segments |-> <<12, 0, 0>>]
      [] v = "13"    -> [err |-> FALSE, segments |-> <<13, 0, 0>>]
      [] v = "18.04" -> [err |-> FALSE, segments |-> <<18, 4, 0>>]
      [] v = "20.04" -> [err |-> FALSE, segments |-> <<20, 4, 0>>]
      [] v = "21.10" -> [err |-> FALSE, segments |-> <<21, 10, 0>>]
      [] v = "22.04" -> [err |-> FALSE, segments |-> <<22, 4, 0>>]
      [] v = "24.04" -> [err |-> FALSE, segments |-> <<24, 4, 0>>]
      [] v = "24.10" -> [err |-> FALSE, segments |-> <<24, 10, 0>>]
      [] v = "25.04" -> [err |-> FALSE, segments |-> <<25, 4, 0>>]
      [] OTHER       -> [err |-> TRUE, segments |-> <<>>]

\* semver.NewConstraint on the keys of the catalogs: the comma-separated
\* clauses, each an operator ("" is equality) and a version; a key that is
\* no such list ("bookworm", "testing", and Common itself) is an error.
NewConstraint(constraint) ==
    CASE constraint = ">=22.04" ->
           [err |-> FALSE, clauses |-> << [op |-> ">=", check |-> <<22, 4, 0>>] >>]
      [] constraint = ">=24.04" ->
           [err |-> FALSE, clauses |-> << [op |-> ">=", check |-> <<24, 4, 0>>] >>]
      [] constraint = ">=13" ->
           [err |-> FALSE, clauses |-> << [op |-> ">=", check |-> <<13, 0, 0>>] >>]
      [] constraint = "24.10" ->
           [err |-> FALSE, clauses |-> << [op |-> "", check |-> <<24, 10, 0>>] >>]
      [] constraint = ">=20.04, != 24.10" ->
           [err |-> FALSE, clauses |-> << [op |-> ">=", check |-> <<20, 4, 0>>],
                                          [op |-> "!=", check |-> <<24, 10, 0>>] >>]
      [] OTHER ->
           [err |-> TRUE, clauses |-> <<>>]

Segment(v, n) == IF n <= Len(v) THEN v[n] ELSE 0

\* (*Version).Compare without pre-release parts: -1, 0 or 1 by the first
\* segment that differs.
Compare(v, c) ==
    LET n == IF Len(v) >= Len(c) THEN Len(v) ELSE Len(c)
        diff == {k \in 1..n : Segment(v, k) # Segment(c, k)}
    IN  IF diff = {} THEN 0
        ELSE LET k == CHOOSE m \in diff : \A o \in diff : m <= o
             IN  IF Segment(v, k) < Segment(c, k) THEN -1 ELSE 1

\* ConstraintCheck with ">=" and "<=" read as the strict comparisons.
ConstraintCheck_Strict(clause, v) ==
    CASE clause.op \in {"", "="} -> Compare(v, clause.check) = 0
      [] clause.op = "!="        -> Compare(v, clause.check) # 0
      [] clause.op \in {">", ">="} -> Compare(v, clause.check) = 1
      [] clause.op \in {"<", "<="} -> Compare(v, clause.check) = -1

ConstraintCheck(clause, v) ==
    CASE clause.op \in {"", "="} -> Compare(v, clause.check) = 0
      [] clause.op = "!="        -> Compare(v, clause.check) # 0
      [] clause.op = ">"         -> Compare(v, clause.check) = 1
      [] clause.op = "<"         -> Compare(v, clause.check) = -1
      [] clause.op = ">="        -> Compare(v, clause.check) >= 0
      [] clause.op = "<="        -> Compare(v, clause.check) <= 0

\* Check where one clause that holds is enough.
Check_AnyClause(clauses, v) == \E k \in DOMAIN clauses : ConstraintCheck(clauses[k], v)

\* Constraints.Check: every clause holds.
Check(clauses, v) == \A k \in DOMAIN clauses : ConstraintCheck(clauses[k], v)

\* ---- Lookups ----

\* A VersionMap value is a reference to a map of a catalog: the catalog, the
\* selector (s.Distro or s.Family) and the architecture key it was read at.
Ref(catalog, selector, arch) ==
    [catalog |-> catalog, selector |-> selector, arch |-> arch]

PackageMap(im, catalog) ==
    IF im = "pm"
    THEN CASE catalog = "BasePackages"     -> BasePackages_pm
           [] catalog = "KernelPackages"   -> KernelPackages_pm
           [] catalog = "SystemdPackages"  -> SystemdPackages_pm
           [] catalog = "GrubPackages"     -> GrubPackages_pm
           [] catalog = "ImmucorePackages" -> ImmucorePackages_pm
    ELSE CASE catalog = "BasePackages"     -> BasePackages_df
           [] catalog = "KernelPackages"   -> KernelPackages_df
           [] catalog = "KernelPackagesTrustedBoot" -> KernelPackagesTrustedBoot_df
           [] catalog = "SystemdPackages"  -> SystemdPackages_df
           [] catalog = "GrubPackages"     -> GrubPackages_df
           [] catalog = "ImmucorePackages" -> ImmucorePackages_df

\* Deref where a selector without the architecture key falls back to its
\* ArchCommon map.
Deref_ArchFallback(im, r) ==
    LET pm == PackageMap(im, r.catalog)
    IN  IF r.selector \notin DOMAIN pm
        THEN <<>>
        ELSE IF r.arch \in DOMAIN pm[r.selector]
             THEN pm[r.selector][r.arch]
             ELSE IF ArchCommon \in DOMAIN pm[r.selector]
                  THEN pm[r.selector][ArchCommon]
                  ELSE <<>>

\* X[selector][arch]: a missing selector or architecture gives the nil map.
Deref(im, r) ==
    LET pm == PackageMap(im, r.catalog)
    IN  IF r.selector \in DOMAIN pm /\ r.arch \in DOMAIN pm[r.selector]
        THEN pm[r.selector][r.arch]
        ELSE <<>>

\* FourLookups with the family looked up before the distro.
FourLookups_FamilyFirst(catalog, sys) ==
    << Ref(catalog, sys.Family, ArchCommon),
       Ref(catalog, sys.Distro, ArchCommon),
       Ref(catalog, sys.Family, sys.Arch),
       Ref(catalog, sys.Distro, sys.Arch) >>

\* FourLookups with the architecture-specific lookups made at ArchAMD64.
FourLookups_FixedArch(catalog, sys) ==
    << Ref(catalog, sys.Distro, ArchCommon),
       Ref(catalog, sys.Family, ArchCommon),
       Ref(catalog, sys.Distro, ArchAMD64),
       Ref(catalog, sys.Family, ArchAMD64) >>

\* The four lookups of one catalog, in the order they are written.
FourLookups(catalog, sys) ==
    << Ref(catalog, sys.Distro, ArchCommon),
       Ref(catalog, sys.Family, ArchCommon),
       Ref(catalog, sys.Distro, sys.Arch),
       Ref(catalog, sys.Family, sys.Arch) >>

FilteredPackages_pm(sys, trustedBoot) ==
    FourLookups("BasePackages", sys) \o FourLookups("KernelPackages", sys) \o
    IF trustedBoot
    THEN FourLookups("SystemdPackages", sys)
    ELSE FourLookups("GrubPackages", sys) \o FourLookups("ImmucorePackages", sys)

FilteredPackages_df(sys, trustedBoot) ==
    FourLookups("BasePackages", sys) \o
    IF trustedBoot
    THEN FourLookups("KernelPackagesTrustedBoot", sys) \o
         FourLookups("SystemdPackages", sys)
    ELSE FourLookups("KernelPackages", sys) \o FourLookups("GrubPackages", sys) \o
         FourLookups("ImmucorePackages", sys)

CommonPackages(im) == IF im = "pm" THEN CommonPackages_pm ELSE CommonPackages_df

\* RangeBody without the test for Common: every key goes to the parser.
RangeBody_NoCommon(acc, lg, entry, version) ==
    LET checking == Append(lg, [msg |-> "Checking constraint",
                                constraint |-> entry.constraint,
                                version |-> version])
        semverConstraint == NewConstraint(entry.constraint)
    IN  IF semverConstraint.err
        THEN [pkgs |-> acc,
              log  |-> Append(checking, [msg |-> "Error parsing constraint.",
                                         constraint |-> entry.constraint])]
        ELSE IF Check(semverConstraint.clauses, version)
        THEN [pkgs |-> acc \o entry.values,
              log  |-> Append(checking, [msg |-> "Constraint matches, adding packages",
                                         packages |-> entry.values])]
        ELSE [pkgs |-> acc, log |-> checking]

\* RangeBody where a key that does not parse drops the list built so far
\* (the error ends the accumulation instead of skipping the entry).
RangeBody_AbortOnError(acc, lg, entry, version) ==
    LET checking == Append(lg, [msg |-> "Checking constraint",
                                constraint |-> entry.constraint,
                                version |-> version])
    IN  IF entry.constraint = Common
        THEN [pkgs |-> acc \o entry.values,
              log  |-> Append(checking, [msg |-> "Adding common packages",
                                         packages |-> entry.values])]
        ELSE LET semverConstraint == NewConstraint(entry.constraint)
             IN  IF semverConstraint.err
                 THEN [pkgs |-> <<>>,
                       log  |-> Append(checking, [msg |-> "Error parsing constraint.",
                                                  constraint |-> entry.constraint])]
                 ELSE IF Check(semverConstraint.clauses, version)
                 THEN [pkgs |-> acc \o entry.values,
                       log  |-> Append(checking,
                                       [msg |-> "Constraint matches, adding packages",
                                        packages |-> entry.values])]
                 ELSE [pkgs |-> acc, log |-> checking]

\* RangeBody that adds only the names the list does not have yet.
RangeBody_Dedup(acc, lg, entry, version) ==
    LET checking == Append(lg, [msg |-> "Checking constraint",
                                constraint |-> entry.constraint,
                                version |-> version])
        have(x) == \E k \in DOMAIN acc : acc[k] = x
        fresh == SelectSeq(entry.values, LAMBDA x : ~have(x))
    IN  IF entry.constraint = Common
        THEN [pkgs |-> acc \o fresh,
              log  |-> Append(checking, [msg |-> "Adding common packages",
                                         packages |-> entry.values])]
        ELSE LET semverConstraint == NewConstraint(entry.constraint)
             IN  IF semverConstraint.err
                 THEN [pkgs |-> acc,
                       log  |-> Append(checking, [msg |-> "Error parsing constraint.",
                                                  constraint |-> entry.constraint])]
                 ELSE IF Check(semverConstraint.clauses, version)
                 THEN [pkgs |-> acc \o fresh,
                       log  |-> Append(checking,
                                       [msg |-> "Constraint matches, adding packages",
                                        packages |-> entry.values])]
                 ELSE [pkgs |-> acc, log |-> checking]

\* The body of `for constraint, values := range packages` for one entry:
\* the list it is appending to and the log, before and after.
RangeBody(acc, lg, entry, version) ==
    LET checking == Append(lg, [msg |-> "Checking constraint",
                                constraint |-> entry.constraint,
                                version |-> version])
    IN  IF entry.constraint = Common
        THEN [pkgs |-> acc \o entry.values,
              log  |-> Append(checking, [msg |-> "Adding common packages",
                                         packages |-> entry.values])]
        ELSE LET semverConstraint == NewConstraint(entry.constraint)
             IN  IF semverConstraint.err
                 THEN [pkgs |-> acc,
                       log  |-> Append(checking, [msg |-> "Error parsing constraint.",
                                                  constraint |-> entry.constraint])]
                 ELSE IF Check(semverConstraint.clauses, version)
                 THEN [pkgs |-> acc \o entry.values,
                       log  |-> Append(checking,
                                       [msg |-> "Constraint matches, adding packages",
                                        packages |-> entry.values])]
                 ELSE [pkgs |-> acc, log |-> checking]

\* ---- State ----

MaxCalls == 2

Distros == {Ubuntu, Debian, Fedora, Arch}
Families == {DebianFamily, RedHatFamily, SUSEFamily, AlpineFamily, ArchFamily}
Archs == {ArchAMD64, ArchARM64}
Versions == {"12", "13", "18.04", "20.04", "21.10", "22.04", "24.04", "24.10",
             "25.04", "bookworm"}

VARIABLES
    impl,              \* "pm" or "df": the copy of the resolver that runs
    s,                 \* the System descriptor passed to every call
    TrustedBoot,       \* config.DefaultConfig.TrustedBoot
    pc,                \* "idle", "range" (inside the loops) or "returned"
    mergedPkgs,        \* GetPackages: mergedPkgs
    pkgs,              \* FilterPackagesOnConstraint: pkgs
    systemVersion,     \* the result of semver.NewVersion(s.Version)
    filteredPackages,  \* the list of VersionMaps to go over
    i,                 \* position of the outer loop in filteredPackages
    visited,           \* entries of filteredPackages[i] the inner loop has seen
    log,               \* what the call has logged so far
    contrib,           \* history: what each element of filteredPackages added
    returns,           \* history: the calls that returned, oldest first
    tpl,               \* a call of PackageListToTemplate: arguments and locals
    heap,              \* backing arrays of the slices: CommonPackages' and the calls'
    calls              \* concurrent calls of GetPackages, one per goroutine

vars == <<impl, s, TrustedBoot, pc, mergedPkgs, pkgs, systemVersion,
          filteredPackages, i, visited, log, contrib, returns, tpl, heap, calls>>

\* No call of PackageListToTemplate, no goroutine.
NoTemplate == [pc |-> "none"]
NoHeap == <<>>
NoCalls == <<>>

Init ==
    /\ impl \in {"pm", "df"}
    /\ s \in [Distro : Distros, Family : Families, Arch : Archs, Version : Versions]
    /\ TrustedBoot \in BOOLEAN
    /\ pc = "idle"
    /\ mergedPkgs = <<>>
    /\ pkgs = <<>>
    /\ systemVersion = [err |-> TRUE, segments |-> <<>>]
    /\ filteredPackages = <<>>
    /\ i = 1
    /\ visited = {}
    /\ log = <<>>
    /\ contrib = <<>>
    /\ returns = <<>>
    /\ tpl = NoTemplate
    /\ heap = NoHeap
    /\ calls = NoCalls

\* The outer loop's position once it has passed the empty (nil) maps from n on.
Skip(im, fp, n) ==
    LET rest == {k \in n..Len(fp) : Len(Deref(im, fp[k])) > 0}
    IN  IF rest = {} THEN Len(fp) + 1 ELSE CHOOSE k \in rest : \A o \in rest : k <= o

Returned(list, failed) ==
    [TrustedBoot |-> TrustedBoot, pkgs |-> list, err |-> failed, contrib |-> contrib]

\* The process rewrites config.DefaultConfig.TrustedBoot between two calls.
SetTrustedBoot ==
    /\ pc \in {"idle", "returned"}
    /\ Len(returns) < MaxCalls
    /\ TrustedBoot' = ~TrustedBoot
    /\ UNCHANGED <<tpl, heap, calls>>
    /\ UNCHANGED <<impl, s, pc, mergedPkgs, pkgs, systemVersion, filteredPackages,
                   i, visited, log, contrib, returns>>

\* ---- src/pkg/values/packagemaps.go ----

\* GetPackages up to its loops: a Version that does not parse ends the call.
GetPackages_pm ==
    /\ impl = "pm"
    /\ pc \in {"idle", "returned"}
    /\ Len(returns) < MaxCalls
    /\ LET version == NewVersion(s.Version)
           fp == FilteredPackages_pm(s, TrustedBoot)
       IN  /\ systemVersion' = version
           /\ pkgs' = <<>>
           /\ visited' = {}
           /\ log' = <<>>
           /\ IF version.err
              THEN /\ mergedPkgs' = CommonPackages(impl)
                   /\ filteredPackages' = <<>>
                   /\ i' = 1
                   /\ contrib' = <<>>
                   /\ pc' = "returned"
                   /\ returns' = Append(returns, [Returned(<<>>, TRUE) EXCEPT
                                                    !.contrib = <<>>])
              ELSE /\ mergedPkgs' = CommonPackages(impl)
                   /\ filteredPackages' = fp
                   /\ i' = Skip(impl, fp, 1)
                   /\ contrib' = [k \in 1..Len(fp) |-> <<>>]
                   /\ pc' = "range"
                   /\ returns' = returns
    /\ UNCHANGED <<tpl, heap, calls>>
    /\ UNCHANGED <<impl, s, TrustedBoot>>

\* One entry of the VersionMap filteredPackages[i], any that was not visited.
Range_pm ==
    /\ impl = "pm"
    /\ pc = "range"
    /\ i <= Len(filteredPackages)
    /\ LET packages == Deref(impl, filteredPackages[i])
       IN  \E k \in DOMAIN packages \ visited :
             LET r == RangeBody(mergedPkgs, log, packages[k], systemVersion.segments)
                 last == visited \cup {k} = DOMAIN packages
             IN  /\ mergedPkgs' = r.pkgs
                 /\ log' = r.log
                 /\ contrib' = [contrib EXCEPT ![i] =
                                  @ \o SubSeq(r.pkgs, Len(mergedPkgs) + 1, Len(r.pkgs))]
                 /\ visited' = IF last THEN {} ELSE visited \cup {k}
                 /\ i' = IF last THEN Skip(impl, filteredPackages, i + 1) ELSE i
    /\ UNCHANGED <<tpl, heap, calls>>
    /\ UNCHANGED <<impl, s, TrustedBoot, pc, pkgs, systemVersion, filteredPackages,
                   returns>>

\* return mergedPkgs, nil
Return_pm ==
    /\ impl = "pm"
    /\ pc = "range"
    /\ i > Len(filteredPackages)
    /\ pc' = "returned"
    /\ returns' = Append(returns, Returned(mergedPkgs, FALSE))
    /\ UNCHANGED <<tpl, heap, calls>>
    /\ UNCHANGED <<impl, s, TrustedBoot, mergedPkgs, pkgs, systemVersion,
                   filteredPackages, i, visited, log, contrib>>

\* ---- src/Dockerfile ----

\* GetPackages up to the loops of FilterPackagesOnConstraint, which returns
\* its empty pkgs when the Version does not parse: GetPackages then appends
\* nothing and returns mergedPkgs with a nil error.
GetPackages_df ==
    /\ impl = "df"
    /\ pc \in {"idle", "returned"}
    /\ Len(returns) < MaxCalls
    /\ LET version == NewVersion(s.Version)
           fp == FilteredPackages_df(s, TrustedBoot)
       IN  /\ systemVersion' = version
           /\ mergedPkgs' = CommonPackages(impl)
           /\ filteredPackages' = fp
           /\ pkgs' = <<>>
           /\ visited' = {}
           /\ log' = <<>>
           /\ contrib' = [k \in 1..Len(fp) |-> <<>>]
           /\ IF version.err
              THEN /\ i' = 1
                   /\ pc' = "returned"
                   /\ returns' = Append(returns,
                                   [Returned(CommonPackages(impl), FALSE) EXCEPT
                                      !.contrib = [k \in 1..Len(fp) |-> <<>>]])
              ELSE /\ i' = Skip(impl, fp, 1)
                   /\ pc' = "range"
                   /\ returns' = returns
    /\ UNCHANGED <<tpl, heap, calls>>
    /\ UNCHANGED <<impl, s, TrustedBoot>>

\* FilterPackagesOnConstraint: one entry of the VersionMap pkgsToFilter[i].
Range_df ==
    /\ impl = "df"
    /\ pc = "range"
    /\ i <= Len(filteredPackages)
    /\ LET packages == Deref(impl, filteredPackages[i])
       IN  \E k \in DOMAIN packages \ visited :
             LET r == RangeBody(pkgs, log, packages[k], systemVersion.segments)
                 last == visited \cup {k} = DOMAIN packages
             IN  /\ pkgs' = r.pkgs
                 /\ log' = r.log
                 /\ contrib' = [contrib EXCEPT ![i] =
                                  @ \o SubSeq(r.pkgs, Len(pkgs) + 1, Len(r.pkgs))]
                 /\ visited' = IF last THEN {} ELSE visited \cup {k}
                 /\ i' = IF last THEN Skip(impl, filteredPackages, i + 1) ELSE i
    /\ UNCHANGED <<tpl, heap, calls>>
    /\ UNCHANGED <<impl, s, TrustedBoot, pc, mergedPkgs, systemVersion,
                   filteredPackages, returns>>

\* FilterPackagesOnConstraint returns pkgs; GetPackages appends them to
\* mergedPkgs and returns it with a nil error.
Return_df ==
    /\ impl = "df"
    /\ pc = "range"
    /\ i > Len(filteredPackages)
    /\ mergedPkgs' = mergedPkgs \o pkgs
    /\ pc' = "returned"
    /\ returns' = Append(returns, Returned(mergedPkgs \o pkgs, FALSE))
    /\ UNCHANGED <<tpl, heap, calls>>
    /\ UNCHANGED <<impl, s, TrustedBoot, pkgs, systemVersion, filteredPackages, i,
                   visited, log, contrib>>

Next ==
    \/ SetTrustedBoot
    \/ GetPackages_pm
    \/ Range_pm
    \/ Return_pm
    \/ GetPackages_df
    \/ Range_df
    \/ Return_df

Spec == Init /\ [][Next]_vars

\* ---- text/template, as PackageListToTemplate uses it ----

Text(t) == [node |-> "text", text |-> t, field |-> <<>>]
Field(chain) == [node |-> "field", text |-> "", field |-> chain]

\* What an invalid value prints as: the template is executed with the default
\* option (missingkey=default), PackageListToTemplate sets no other.
NoValue == "<no value>"

\* template.New("versionTemplate").Parse(pkg): text outside {{ }} is copied,
\* {{.a.b}} is a chain of fields, an action that is not closed is an error.
Parse(pkg) ==
    CASE pkg = "linux-image-generic-hwe-{{.version}}" ->
           [err |-> FALSE,
            nodes |-> <<Text("linux-image-generic-hwe-"), Field(<<"version">>)>>]
      [] pkg = "kernel-{{.flavor}}-{{.version}}" ->
           [err |-> FALSE,
            nodes |-> <<Text("kernel-"), Field(<<"flavor">>), Text("-"),
                        Field(<<"version">>)>>]
      [] pkg = "{{.version.major}}" ->
           [err |-> FALSE, nodes |-> <<Field(<<"version", "major">>)>>]
      [] pkg = "linux-image-{{.version" ->
           [err |-> TRUE, nodes |-> <<>>]
      [] OTHER ->
           [err |-> FALSE, nodes |-> <<Text(pkg)>>]

\* A chain of fields evaluated on params, a map[string]string (nil or not): a
\* key of the map gives its value, a key the map does not have gives an invalid
\* value and no error, and a further field of either is an error.
EvalField(chain, params) ==
    IF Len(chain) > 1
    THEN [err |-> TRUE, out |-> ""]
    ELSE IF chain[1] \in DOMAIN params
         THEN [err |-> FALSE, out |-> params[chain[1]]]
         ELSE [err |-> FALSE, out |-> NoValue]

RECURSIVE ExecuteFrom(_, _, _, _)
ExecuteFrom(nodes, n, params, result) ==
    IF n > Len(nodes)
    THEN [err |-> FALSE, out |-> result]
    ELSE IF nodes[n].node = "text"
         THEN ExecuteFrom(nodes, n + 1, params, result \o nodes[n].text)
         ELSE LET v == EvalField(nodes[n].field, params)
              IN  IF v.err
                  THEN [err |-> TRUE, out |-> result]
                  ELSE ExecuteFrom(nodes, n + 1, params, result \o v.out)

\* tmpl.Execute(&result, params) and result.String()
Execute(nodes, params) == ExecuteFrom(nodes, 1, params, "")

\* ---- PackageListToTemplate ----

MaxPackages == 3

TemplateEntries ==
    {"curl", "linux-image-generic-hwe-{{.version}}", "kernel-{{.flavor}}-{{.version}}",
     "{{.version.major}}", "linux-image-{{.version"}

\* params: nil, or a map with some of the keys
TemplateParams ==
    {<<>>, [key \in {"version"} |-> "24.04"], [key \in {"flavor"} |-> "generic"],
     [key \in {"version", "flavor"} |-> IF key = "version" THEN "24.04" ELSE "generic"]}

PackageLists == UNION {[1..n -> TemplateEntries] : n \in 0..MaxPackages}

NoReturn == [pkgs |-> <<>>, err |-> FALSE, msg |-> "", packages |-> <<>>]

\* The variables of GetPackages while no call of it is made.
ResolverIdle ==
    /\ impl = "pm"
    /\ s = [Distro |-> Ubuntu, Family |-> DebianFamily, Arch |-> ArchAMD64,
            Version |-> "24.04"]
    /\ TrustedBoot = FALSE
    /\ pc = "idle"
    /\ mergedPkgs = <<>>
    /\ pkgs = <<>>
    /\ systemVersion = [err |-> TRUE, segments |-> <<>>]
    /\ filteredPackages = <<>>
    /\ i = 1
    /\ visited = {}
    /\ log = <<>>
    /\ contrib = <<>>
    /\ returns = <<>>

resolverVars == <<impl, s, TrustedBoot, pc, mergedPkgs, pkgs, systemVersion,
                  filteredPackages, i, visited, log, contrib, returns>>

InitTemplate ==
    /\ ResolverIdle
    /\ heap = NoHeap
    /\ calls = NoCalls
    /\ tpl \in [pc : {"idle"}, packages : PackageLists, params : TemplateParams,
                k : {1}, finalPackages : {<<>>}, ret : {NoReturn}]

\* The call: var finalPackages []string, and the range starts.
PackageListToTemplate ==
    /\ tpl.pc = "idle"
    /\ tpl' = [tpl EXCEPT !.pc = "range", !.finalPackages = <<>>, !.k = 1]
    /\ UNCHANGED <<resolverVars, heap, calls>>

\* One turn of the range over packages.
TemplateRange ==
    /\ tpl.pc = "range"
    /\ tpl.k <= Len(tpl.packages)
    /\ LET pkg == tpl.packages[tpl.k]
           tmpl == Parse(pkg)
           result == Execute(tmpl.nodes, tpl.params)
       IN  tpl' = IF tmpl.err
                  THEN [tpl EXCEPT !.pc = "returned",
                                   !.ret = [pkgs |-> <<>>, err |-> TRUE,
                                            msg |-> "Error parsing template.",
                                            packages |-> tpl.packages]]
                  ELSE IF result.err
                       THEN [tpl EXCEPT !.pc = "returned",
                                        !.ret = [pkgs |-> <<>>, err |-> TRUE,
                                                 msg |-> "Error executing template.",
                                                 packages |-> tpl.packages]]
                       ELSE [tpl EXCEPT !.finalPackages = Append(@, result.out),
                                        !.k = @ + 1]
    /\ UNCHANGED <<resolverVars, heap, calls>>

\* return finalPackages, nil
TemplateReturn ==
    /\ tpl.pc = "range"
    /\ tpl.k > Len(tpl.packages)
    /\ tpl' = [tpl EXCEPT !.pc = "returned",
                          !.ret = [pkgs |-> tpl.finalPackages, err |-> FALSE,
                                   msg |-> "", packages |-> tpl.packages]]
    /\ UNCHANGED <<resolverVars, heap, calls>>

NextTemplate == PackageListToTemplate \/ TemplateRange \/ TemplateReturn

SpecTemplate == InitTemplate /\ [][NextTemplate]_vars

\* ---- Slices and concurrent calls ----

MaxGoroutines == 2

Goroutines == 1..MaxGoroutines

\* The backing arrays: CommonArray is the array of the CommonPackages
\* literal, NoArray the array of a nil slice, and g is the array the call of
\* goroutine g allocated last (a call holds one array at a time).
CommonArray == 0
NoArray == 0 - 1

NilSlice == [array |-> NoArray, len |-> 0, cap |-> 0]

\* cap(CommonPackages) with a backing array that has room left.
CapCommonPackages_Spare(im) == 2 * Len(CommonPackages(im))

\* cap(CommonPackages): a slice literal has the capacity of its length.
CapCommonPackages(im) == Len(CommonPackages(im))

\* The slice header the variable CommonPackages holds.
CommonSlice(im) ==
    [array |-> CommonArray, len |-> Len(CommonPackages(im)),
     cap |-> CapCommonPackages(im)]

\* The backing array of CommonPackages as the literal builds it.
CommonCells(im) ==
    [k \in 1..CapCommonPackages(im) |->
        IF k <= Len(CommonPackages(im)) THEN CommonPackages(im)[k] ELSE ""]

\* The elements of a slice.
SliceValue(h, sl) == IF sl.len = 0 THEN <<>> ELSE SubSeq(h[sl.array], 1, sl.len)

\* append(sl, values...) in goroutine g: nothing to add gives sl back; with
\* room in the backing array the values are written behind the slice's
\* elements; otherwise the elements and the values go to a new array (whose
\* own spare capacity no other slice can reach and is left out).
AppendSlice(h, sl, values, g) ==
    LET n == Len(values)
    IN  IF n = 0
        THEN [heap |-> h, slice |-> sl]
        ELSE IF sl.len + n <= sl.cap
        THEN [heap  |-> [h EXCEPT ![sl.array] =
                           [k \in DOMAIN @ |->
                              IF k > sl.len /\ k <= sl.len + n
                              THEN values[k - sl.len] ELSE @[k]]],
              slice |-> [sl EXCEPT !.len = @ + n]]
        ELSE [heap  |-> [h EXCEPT ![g] = SliceValue(h, sl) \o values],
              slice |-> [array |-> g, len |-> sl.len + n, cap |-> sl.len + n]]

\* The Systems the concurrent calls are made for: two with entries in most
\* catalogs, one with none in src/Dockerfile, one whose Version does not parse.
HeapSystems ==
    {[Distro |-> Ubuntu, Family |-> DebianFamily, Arch |-> ArchAMD64, Version |-> "24.10"],
     [Distro |-> Debian, Family |-> DebianFamily, Arch |-> ArchARM64, Version |-> "13"],
     [Distro |-> Arch, Family |-> ArchFamily, Arch |-> ArchAMD64, Version |-> "12"],
     [Distro |-> Ubuntu, Family |-> DebianFamily, Arch |-> ArchAMD64,
      Version |-> "bookworm"]}

NoResult == [slice |-> NilSlice, pkgs |-> <<>>, err |-> FALSE]

IdleCall(sys) ==
    [pc |-> "idle", s |-> sys, mergedPkgs |-> NilSlice, pkgs |-> <<>>,
     systemVersion |-> [err |-> TRUE, segments |-> <<>>],
     filteredPackages |-> <<>>, i |-> 1, visited |-> {}, appended |-> <<>>,
     ret |-> NoResult]

InitHeap ==
    /\ impl \in {"pm", "df"}
    /\ TrustedBoot \in BOOLEAN
    /\ s = [Distro |-> Ubuntu, Family |-> DebianFamily, Arch |-> ArchAMD64,
            Version |-> "24.04"]
    /\ pc = "idle"
    /\ mergedPkgs = <<>>
    /\ pkgs = <<>>
    /\ systemVersion = [err |-> TRUE, segments |-> <<>>]
    /\ filteredPackages = <<>>
    /\ i = 1
    /\ visited = {}
    /\ log = <<>>
    /\ contrib = <<>>
    /\ returns = <<>>
    /\ tpl = NoTemplate
    /\ heap = [a \in 0..MaxGoroutines |->
                 IF a = CommonArray THEN CommonCells(impl) ELSE <<>>]
    /\ calls \in [Goroutines -> {IdleCall(sys) : sys \in HeapSystems}]

\* packagemaps.go, GetPackages in goroutine g up to its loops.
HeapGetPackages_pm(g) ==
    /\ impl = "pm"
    /\ calls[g].pc = "idle"
    /\ LET version == NewVersion(calls[g].s.Version)
           fp == FilteredPackages_pm(calls[g].s, TrustedBoot)
       IN  calls' = [calls EXCEPT ![g] =
             IF version.err
             THEN [@ EXCEPT !.systemVersion = version,
                            !.mergedPkgs = CommonSlice(impl),
                            !.pc = "returned",
                            !.ret = [slice |-> NilSlice, pkgs |-> <<>>, err |-> TRUE]]
             ELSE [@ EXCEPT !.systemVersion = version,
                            !.mergedPkgs = CommonSlice(impl),
                            !.filteredPackages = fp,
                            !.i = Skip(impl, fp, 1),
                            !.pc = "range"]]
    /\ UNCHANGED <<resolverVars, tpl, heap>>

\* mergedPkgs = append(mergedPkgs, values...) for one entry of the VersionMap.
HeapRange_pm(g) ==
    /\ impl = "pm"
    /\ calls[g].pc = "range"
    /\ calls[g].i <= Len(calls[g].filteredPackages)
    /\ LET c == calls[g]
           packages == Deref(impl, c.filteredPackages[c.i])
       IN  \E k \in DOMAIN packages \ c.visited :
             LET values == RangeBody(<<>>, <<>>, packages[k], c.systemVersion.segments).pkgs
                 a == AppendSlice(heap, c.mergedPkgs, values, g)
                 last == c.visited \cup {k} = DOMAIN packages
             IN  /\ heap' = a.heap
                 /\ calls' = [calls EXCEPT ![g] =
                      [@ EXCEPT !.mergedPkgs = a.slice,
                                !.appended = @ \o values,
                                !.visited = IF last THEN {} ELSE c.visited \cup {k},
                                !.i = IF last
                                      THEN Skip(impl, c.filteredPackages, c.i + 1)
                                      ELSE c.i]]
    /\ UNCHANGED <<resolverVars, tpl>>

\* return mergedPkgs, nil
HeapReturn_pm(g) ==
    /\ impl = "pm"
    /\ calls[g].pc = "range"
    /\ calls[g].i > Len(calls[g].filteredPackages)
    /\ calls' = [calls EXCEPT ![g] =
         [@ EXCEPT !.pc = "returned",
                   !.ret = [slice |-> calls[g].mergedPkgs,
                            pkgs |-> SliceValue(heap, calls[g].mergedPkgs),
                            err |-> FALSE]]]
    /\ UNCHANGED <<resolverVars, tpl, heap>>

\* src/Dockerfile, GetPackages in goroutine g up to the loops of
\* FilterPackagesOnConstraint; for a Version that does not parse it appends
\* the empty pkgs and returns.
HeapGetPackages_df(g) ==
    /\ impl = "df"
    /\ calls[g].pc = "idle"
    /\ LET version == NewVersion(calls[g].s.Version)
           fp == FilteredPackages_df(calls[g].s, TrustedBoot)
           a == AppendSlice(heap, CommonSlice(impl), <<>>, g)
       IN  /\ heap' = IF version.err THEN a.heap ELSE heap
           /\ calls' = [calls EXCEPT ![g] =
                IF version.err
                THEN [@ EXCEPT !.systemVersion = version,
                               !.mergedPkgs = a.slice,
                               !.filteredPackages = fp,
                               !.pc = "returned",
                               !.ret = [slice |-> a.slice,
                                        pkgs |-> SliceValue(a.heap, a.slice),
                                        err |-> FALSE]]
                ELSE [@ EXCEPT !.systemVersion = version,
                               !.mergedPkgs = CommonSlice(impl),
                               !.filteredPackages = fp,
                               !.i = Skip(impl, fp, 1),
                               !.pc = "range"]]
    /\ UNCHANGED <<resolverVars, tpl>>

\* FilterPackagesOnConstraint: pkgs = append(pkgs, values...) on its own slice.
HeapRange_df(g) ==
    /\ impl = "df"
    /\ calls[g].pc = "range"
    /\ calls[g].i <= Len(calls[g].filteredPackages)
    /\ LET c == calls[g]
           packages == Deref(impl, c.filteredPackages[c.i])
       IN  \E k \in DOMAIN packages \ c.visited :
             LET r == RangeBody(c.pkgs, <<>>, packages[k], c.systemVersion.segments)
                 last == c.visited \cup {k} = DOMAIN packages
             IN  calls' = [calls EXCEPT ![g] =
                   [@ EXCEPT !.pkgs = r.pkgs,
                             !.visited = IF last THEN {} ELSE c.visited \cup {k},
                             !.i = IF last
                                   THEN Skip(impl, c.filteredPackages, c.i + 1)
                                   ELSE c.i]]
    /\ UNCHANGED <<resolverVars, tpl, heap>>

\* mergedPkgs = append(mergedPkgs, FilterPackagesOnConstraint(...)...) and
\* return mergedPkgs, nil
HeapReturn_df(g) ==
    /\ impl = "df"
    /\ calls[g].pc = "range"
    /\ calls[g].i > Len(calls[g].filteredPackages)
    /\ LET a == AppendSlice(heap, calls[g].mergedPkgs, calls[g].pkgs, g)
       IN  /\ heap' = a.heap
           /\ calls' = [calls EXCEPT ![g] =
                [@ EXCEPT !.mergedPkgs = a.slice,
                          !.appended = calls[g].pkgs,
                          !.pc = "returned",
                          !.ret = [slice |-> a.slice,
                                   pkgs |-> SliceValue(a.heap, a.slice),
                                   err |-> FALSE]]]
    /\ UNCHANGED <<resolverVars, tpl>>

\* The caller of goroutine g overwrites the first element of the list it got.
CallerWrites(g) ==
    /\ calls[g].pc = "returned"
    /\ calls[g].ret.slice.len > 0
    /\ heap' = [heap EXCEPT ![calls[g].ret.slice.array][1] = "overwritten"]
    /\ calls' = [calls EXCEPT ![g].pc = "wrote"]
    /\ UNCHANGED <<resolverVars, tpl>>

NextHeap ==
    \E g \in Goroutines :
        \/ HeapGetPackages_pm(g)
        \/ HeapRange_pm(g)
        \/ HeapReturn_pm(g)
        \/ HeapGetPackages_df(g)
        \/ HeapRange_df(g)
        \/ HeapReturn_df(g)
        \/ CallerWrites(g)

SpecHeap == InitHeap /\ [][NextHeap]_vars

\* ---- Helpers of the properties ----

Names(seq) == {seq[k] : k \in DOMAIN seq}

RECURSIVE Flatten(_)
Flatten(seqs) == IF seqs = <<>> THEN <<>> ELSE Head(seqs) \o Flatten(Tail(seqs))

IsInfix(sub, seq) ==
    \E k \in 0..(Len(seq) - Len(sub)) : SubSeq(seq, k + 1, k + Len(sub)) = sub

\* The orders in which the entries S of a VersionMap can be visited.
Orderings(S) ==
    {p \in [1..Cardinality(S) -> S] : \A a, b \in DOMAIN p : p[a] = p[b] => a = b}

\* The package lists of the entries S of packages, one after the other in
\* each order of S.
Arrangements(packages, S) ==
    {Flatten([k \in DOMAIN p |-> packages[p[k]].values]) : p \in Orderings(S)}

\* The entries S of packages in the order of the catalog's literal.
RECURSIVE Declared(_, _, _)
Declared(packages, S, k) ==
    IF k > Len(packages) THEN <<>>
    ELSE (IF k \in S THEN packages[k].values ELSE <<>>) \o Declared(packages, S, k + 1)

HasReturned == pc = "returned"
LastReturn == returns[Len(returns)]
Succeeded == HasReturned /\ ~LastReturn.err

\* The catalog sequence the properties expect of the call that returned.
ExpectedCatalogs ==
    IF LastReturn.TrustedBoot
    THEN << "BasePackages",
            IF impl = "pm" THEN "KernelPackages" ELSE "KernelPackagesTrustedBoot",
            "SystemdPackages" >>
    ELSE << "BasePackages", "KernelPackages", "GrubPackages", "ImmucorePackages" >>

\* The expected lookups: four per catalog, (Distro, ArchCommon),
\* (Family, ArchCommon), (Distro, Arch), (Family, Arch).
ExpectedLookups ==
    [j \in 1..(4 * Len(ExpectedCatalogs)) |->
        [catalog  |-> ExpectedCatalogs[((j - 1) \div 4) + 1],
         selector |-> IF j % 2 = 1 THEN s.Distro ELSE s.Family,
         arch     |-> IF (j - 1) % 4 < 2 THEN ArchCommon ELSE s.Arch]]

\* Versions as tuples of integers, for the versions that are dotted numbers.
VersionTuple ==
    "12" :> <<12, 0>> @@ "13" :> <<13, 0>> @@ "18.04" :> <<18, 4>> @@
    "20.04" :> <<20, 4>> @@ "21.10" :> <<21, 10>> @@ "22.04" :> <<22, 4>> @@
    "24.04" :> <<24, 4>> @@ "24.10" :> <<24, 10>> @@ "25.04" :> <<25, 4>>

Parses(version) == version \in DOMAIN VersionTuple

AtLeast(a, b) == a[1] > b[1] \/ (a[1] = b[1] /\ a[2] >= b[2])

\* What each well-formed constraint key of the catalogs asks of a version.
Matches(constraint, version) ==
    LET v == VersionTuple[version]
    IN  CASE constraint = Common              -> TRUE
          [] constraint = ">=22.04"           -> AtLeast(v, <<22, 4>>)
          [] constraint = ">=24.04"           -> AtLeast(v, <<24, 4>>)
          [] constraint = ">=13"              -> AtLeast(v, <<13, 0>>)
          [] constraint = "24.10"             -> v = <<24, 10>>
          [] constraint = ">=20.04, != 24.10" -> AtLeast(v, <<20, 4>>) /\ v # <<24, 10>>
          [] OTHER                            -> FALSE

\* The keys of the catalogs that are constraints.
WellFormed(constraint) ==
    constraint \in {">=22.04", ">=24.04", ">=13", "24.10", ">=20.04, != 24.10"}

MatchedEntries(packages, version) ==
    {k \in DOMAIN packages : Matches(packages[k].constraint, version)}

\* ---- Properties ----

\* C1: two calls of GetPackages on the same System in the same boot mode
\* return the same list (same names, same multiplicities, same order) and the
\* same error.  The range over a VersionMap with two matching keys breaks it.
C1_Deterministic ==
    \A a, b \in DOMAIN returns :
        returns[a].TrustedBoot = returns[b].TrustedBoot =>
            /\ returns[a].pkgs = returns[b].pkgs
            /\ returns[a].err = returns[b].err

\* C2: a successful output is CommonPackages followed by what the lookups
\* added, catalog by catalog in the fixed sequence (Base, the kernel catalog,
\* then Grub and Immucore, or Systemd in trusted-boot mode) and within a
\* catalog in the order (Distro, ArchCommon), (Family, ArchCommon),
\* (Distro, Arch), (Family, Arch); what one lookup added is made of whole
\* package lists of that lookup's VersionMap, each in its declared order.
C2_FixedOrder ==
    Succeeded =>
        /\ LastReturn.pkgs = CommonPackages(impl) \o Flatten(contrib)
        /\ Len(contrib) = Len(ExpectedLookups)
        /\ \A j \in DOMAIN contrib :
             LET packages == Deref(impl, ExpectedLookups[j])
             IN  \E S \in SUBSET DOMAIN packages :
                    contrib[j] \in Arrangements(packages, S)

\* C2 witness: a legacy call for an Ubuntu System on amd64 returned with
\* packages from both selectors, both architecture keys and every catalog.
C2_Witness ==
    /\ Succeeded
    /\ ~LastReturn.TrustedBoot
    /\ s.Distro = Ubuntu /\ s.Family = DebianFamily /\ s.Arch = ArchAMD64
    /\ Len(contrib) = 16
    /\ contrib[1] # <<>> /\ contrib[2] # <<>>
    /\ \E j \in 5..8 : contrib[j] # <<>>
    /\ contrib[12] # <<>>
    /\ \E j \in 13..16 : contrib[j] # <<>>

\* C3: when several keys of one VersionMap match, their package lists come
\* out in the order in which the keys are declared in the catalog.
C3_DeclarationOrder ==
    Succeeded =>
        \A j \in DOMAIN contrib :
            LET packages == Deref(impl, filteredPackages[j])
            IN  \E S \in SUBSET DOMAIN packages :
                    contrib[j] = Declared(packages, S, 1)

\* The names a VersionMap lists, those a catalog declares under one
\* architecture key, and those it declares at all.
EntryNames(packages) == UNION {Names(packages[k].values) : k \in DOMAIN packages}

DeclaredUnder(packageMap, arch) ==
    UNION {EntryNames(packageMap[sel][arch]) :
             sel \in {x \in DOMAIN packageMap : arch \in DOMAIN packageMap[x]}}

CatalogNames(packageMap) ==
    UNION {DeclaredUnder(packageMap, arch) : arch \in {ArchCommon, ArchAMD64, ArchARM64}}

Catalogs(im) ==
    {"BasePackages", "KernelPackages", "SystemdPackages", "GrubPackages",
     "ImmucorePackages"} \cup
    (IF im = "df" THEN {"KernelPackagesTrustedBoot"} ELSE {})

LegacyCatalogs == {"KernelPackages", "GrubPackages", "ImmucorePackages"}
TrustedBootCatalogs == {"SystemdPackages", "KernelPackagesTrustedBoot"}

\* The names that occur in the catalogs `only` and nowhere else, per copy.
OnlyIn(only) ==
    [im \in {"pm", "df"} |->
        UNION {CatalogNames(PackageMap(im, c)) : c \in Catalogs(im) \cap only}
        \ (Names(CommonPackages(im)) \cup
           UNION {CatalogNames(PackageMap(im, c)) : c \in Catalogs(im) \ only})]

LegacyOnlyNames == OnlyIn(LegacyCatalogs)
TrustedBootOnlyNames == OnlyIn(TrustedBootCatalogs)

\* The names declared under the architecture key arch and under no other
\* key (ArchCommon included), per copy.
OnlyUnder ==
    [im \in {"pm", "df"} |->
        [arch \in Archs |->
            UNION {DeclaredUnder(PackageMap(im, c), arch) : c \in Catalogs(im)}
            \ (Names(CommonPackages(im)) \cup
               UNION {DeclaredUnder(PackageMap(im, c), other) :
                        c \in Catalogs(im),
                        other \in {ArchCommon, ArchAMD64, ArchARM64} \ {arch}})]]

RECURSIVE SumLen(_, _)
SumLen(packages, S) ==
    IF S = {} THEN 0
    ELSE LET k == CHOOSE x \in S : TRUE
         IN  Len(packages[k].values) + SumLen(packages, S \ {k})

\* C4: Base is consulted in both modes; a trusted-boot call consults, besides
\* Base, only the trusted-boot kernel catalog and the Systemd catalog, and a
\* legacy call only the Kernel, Grub and Immucore catalogs; so no name that
\* occurs only in the legacy catalogs is in a trusted-boot output and no name
\* that occurs only in the trusted-boot catalogs is in a legacy output.
C4_ModeSelection ==
    Succeeded =>
        LET consulted == {filteredPackages[j].catalog : j \in DOMAIN filteredPackages}
            out == Names(LastReturn.pkgs)
        IN  /\ "BasePackages" \in consulted
            /\ IF LastReturn.TrustedBoot
               THEN /\ consulted \cap LegacyCatalogs = {}
                    /\ out \cap LegacyOnlyNames[impl] = {}
               ELSE /\ consulted \cap TrustedBootCatalogs = {}
                    /\ out \cap TrustedBootOnlyNames[impl] = {}

\* C5: for a System whose version parses, what the kernel and bootloader
\* catalogs add in trusted-boot mode and what they add in legacy mode share
\* no name, and the CommonPackages prefix and what Base adds are the same in
\* the two modes.
C5_ModeDisjoint ==
    \A a, b \in DOMAIN returns :
        (Parses(s.Version) /\ returns[a].TrustedBoot /\ ~returns[b].TrustedBoot) =>
            LET n == Len(CommonPackages(impl))
                A == returns[a]
                B == returns[b]
            IN  /\ SubSeq(A.pkgs, 1, n) = SubSeq(B.pkgs, 1, n)
                /\ SubSeq(A.contrib, 1, 4) = SubSeq(B.contrib, 1, 4)
                /\ Names(Flatten(SubSeq(A.contrib, 5, Len(A.contrib)))) \cap
                   Names(Flatten(SubSeq(B.contrib, 5, Len(B.contrib)))) = {}

\* C6: a name the catalogs declare only under one architecture key A is in
\* no output for a System of another architecture; and for a System whose
\* version parses, every Common or matching entry under ArchCommon of the
\* System's distro and family, in each catalog of the call, is in the output,
\* whatever the architecture is.
C6_ArchIsolation ==
    HasReturned =>
        /\ \A arch \in Archs \ {s.Arch} :
               Names(LastReturn.pkgs) \cap OnlyUnder[impl][arch] = {}
        /\ (Succeeded /\ Parses(s.Version)) =>
              \A j \in DOMAIN ExpectedLookups :
                  ExpectedLookups[j].arch = ArchCommon =>
                      LET packages == Deref(impl, ExpectedLookups[j])
                      IN  \A k \in MatchedEntries(packages, s.Version) :
                              Names(packages[k].values) \subseteq Names(LastReturn.pkgs)

\* C6 witness: a call for a Debian System on arm64 returned the ArchCommon
\* entries of Debian and of its family and the arm64 kernel, while the
\* catalogs declare names under amd64 only.
C6_Witness ==
    /\ Succeeded
    /\ s.Distro = Debian /\ s.Family = DebianFamily /\ s.Arch = ArchARM64
    /\ contrib[1] # <<>> /\ contrib[2] # <<>>
    /\ "linux-image-arm64" \in Names(LastReturn.pkgs)
    /\ "linux-image-amd64" \in OnlyUnder[impl][ArchAMD64]
    /\ "linux-image-amd64" \notin Names(LastReturn.pkgs)

\* C7: for a System whose version parses, in both modes, every package list
\* under the key Common of a VersionMap of the call is in the output, and
\* the key Common never reaches the constraint parser (no parse error is
\* logged for it).
C7_CommonIncluded ==
    (HasReturned /\ Parses(s.Version)) =>
        /\ ~LastReturn.err
        /\ \A j \in DOMAIN filteredPackages :
             LET packages == Deref(impl, filteredPackages[j])
             IN  \A k \in DOMAIN packages :
                     packages[k].constraint = Common =>
                         /\ IsInfix(packages[k].values, contrib[j])
                         /\ IsInfix(packages[k].values, LastReturn.pkgs)
        /\ \A n \in DOMAIN log :
               log[n].msg = "Error parsing constraint." => log[n].constraint # Common

\* C7 witness: calls in trusted-boot mode for an Ubuntu System older than
\* 24.04 returned: only the Common keys of its VersionMaps match.
C7_Witness ==
    /\ Succeeded
    /\ LastReturn.TrustedBoot
    /\ s.Distro = Ubuntu /\ s.Family = DebianFamily /\ s.Version = "18.04"
    /\ "systemd" \in Names(Flatten(contrib))
    /\ "fdisk" \in Names(contrib[1])

\* C8: a key that is not Common has its packages added iff every clause of
\* its constraint holds of the System version, versions compared as tuples
\* of integers: ">=22.04" holds of 22.04 and above and not of 21.10,
\* ">=20.04, != 24.10" of 24.04 but not of 24.10 nor below 20.04, and
\* "24.10" of 24.10 alone.
C8_ConstraintEvaluation ==
    /\ \A n \in DOMAIN log :
          (/\ log[n].msg = "Checking constraint"
           /\ log[n].constraint # Common
           /\ WellFormed(log[n].constraint)) =>
              (Matches(log[n].constraint, s.Version)
                 <=> /\ n < Len(log)
                     /\ log[n + 1].msg = "Constraint matches, adding packages")
    /\ (Succeeded /\ Parses(s.Version)) =>
          \A j \in DOMAIN filteredPackages :
              LET packages == Deref(impl, filteredPackages[j])
              IN  \A k \in DOMAIN packages :
                      packages[k].constraint # Common =>
                          (Matches(packages[k].constraint, s.Version)
                             <=> IsInfix(packages[k].values, contrib[j]))

\* C8 witnesses: a legacy call for Ubuntu 22.04 took the ">=22.04" entry of
\* ImmucorePackages and the ">=20.04, != 24.10" entry of KernelPackages and
\* left out the "24.10" entry.
C8_Witness ==
    /\ Succeeded
    /\ ~LastReturn.TrustedBoot
    /\ s.Distro = Ubuntu /\ s.Arch = ArchAMD64 /\ s.Version = "22.04"
    /\ "dracut-live" \in Names(LastReturn.pkgs)
    /\ "linux-image-generic-hwe-{{.version}}" \in Names(LastReturn.pkgs)
    /\ "linux-image-generic-hwe-24.04" \notin Names(LastReturn.pkgs)

\* C9: a key that is neither Common nor a constraint leaves out its own
\* packages only: the call returns its list with a nil error, every key of
\* every VersionMap of the call is evaluated, and each lookup adds exactly
\* the lists of its Common and matching keys.
C9_MalformedKeyLocal ==
    (HasReturned /\ \E n \in DOMAIN log : log[n].msg = "Error parsing constraint.") =>
        /\ ~LastReturn.err
        /\ Cardinality({n \in DOMAIN log : log[n].msg = "Checking constraint"})
             = Len(Flatten([j \in DOMAIN filteredPackages |->
                              Deref(impl, filteredPackages[j])]))
        /\ \A j \in DOMAIN filteredPackages :
             LET packages == Deref(impl, filteredPackages[j])
                 matched == MatchedEntries(packages, s.Version)
             IN  /\ Len(contrib[j]) = SumLen(packages, matched)
                 /\ \A k \in matched : IsInfix(packages[k].values, LastReturn.pkgs)
        /\ Len(LastReturn.pkgs) = Len(CommonPackages(impl)) + Len(Flatten(contrib))

\* C9 witness: a call went over BasePackages[DebianFamily][ArchCommon] of
\* packagemaps.go, logged the keys "bookworm" and "testing" as unparsable
\* and returned with packages of later VersionMaps.
C9_Witness ==
    /\ Succeeded
    /\ impl = "pm"
    /\ \E n \in DOMAIN log :
          log[n].msg = "Error parsing constraint." /\ log[n].constraint = "bookworm"
    /\ \E n \in DOMAIN log :
          log[n].msg = "Error parsing constraint." /\ log[n].constraint = "testing"
    /\ "systemd-cryptsetup" \notin Names(LastReturn.pkgs)
    /\ \E j \in 3..Len(contrib) : contrib[j] # <<>>

\* C10: for a System whose Version does not parse, the call either fails
\* with an error and no list, or succeeds with CommonPackages followed by
\* the Common-keyed lists of its lookups and nothing else.
C10_UnparsableVersion ==
    (HasReturned /\ ~Parses(s.Version)) =>
        \/ LastReturn.err /\ LastReturn.pkgs = <<>>
        \/ /\ ~LastReturn.err
           /\ LastReturn.pkgs =
                CommonPackages(impl) \o
                Flatten([j \in DOMAIN ExpectedLookups |->
                           LET packages == Deref(impl, ExpectedLookups[j])
                           IN  Declared(packages,
                                        {k \in DOMAIN packages :
                                           packages[k].constraint = Common}, 1)])

\* ---- Template expansion (C11 to C13) ----

\* The keys an entry's placeholders name, read off the entry's text.
Keys(pkg) ==
    CASE pkg = "linux-image-generic-hwe-{{.version}}" -> {"version"}
      [] pkg = "kernel-{{.flavor}}-{{.version}}" -> {"flavor", "version"}
      [] pkg = "{{.version.major}}" -> {"version"}
      [] pkg = "linux-image-{{.version" -> {"version"}
      [] OTHER -> {}

\* An entry that is a well-formed template of placeholders {{.key}}.
Expandable(pkg) == pkg \notin {"{{.version.major}}", "linux-image-{{.version"}

\* An entry that expands under params: well formed, every key present.
Expands(pkg, params) == Expandable(pkg) /\ Keys(pkg) \subseteq DOMAIN params

\* The entry with every placeholder replaced by the value of its key.
Substituted(pkg, params) ==
    CASE pkg = "linux-image-generic-hwe-{{.version}}" ->
           "linux-image-generic-hwe-" \o params["version"]
      [] pkg = "kernel-{{.flavor}}-{{.version}}" ->
           "kernel-" \o params["flavor"] \o "-" \o params["version"]
      [] OTHER -> pkg

TemplateReturned == tpl.pc = "returned"

\* C11: a placeholder whose key is absent from params (nil and empty maps
\* included) makes PackageListToTemplate return an error; it never returns
\* success with the placeholder replaced by an empty or filler string.
C11_MissingKeyError ==
    TemplateReturned =>
        ((\E k \in 1..Len(tpl.packages) :
             ~(Keys(tpl.packages[k]) \subseteq DOMAIN tpl.params))
         => tpl.ret.err)

RECURSIVE SelectExpanding(_, _)
SelectExpanding(packages, params) ==
    IF packages = <<>>
    THEN <<>>
    ELSE LET rest == SelectExpanding(Tail(packages), params)
         IN  IF Expands(Head(packages), params)
             THEN <<Substituted(Head(packages), params)>> \o rest
             ELSE rest

\* C12: a template error is local to its entry: when the expansion of one entry
\* fails, the other entries of the call are still expanded and returned.
C12_TemplateErrorLocal ==
    (TemplateReturned
     /\ \E k \in 1..Len(tpl.packages) : ~Expands(tpl.packages[k], tpl.params))
    => tpl.ret.pkgs = SelectExpanding(tpl.packages, tpl.params)

\* C13: when every entry expands without error, the result has the length of
\* the input, its i-th element is the i-th input with every placeholder
\* replaced by the value of its key in params (an entry without a placeholder
\* is unchanged), and the input list is as it was passed.
C13_ExpansionResult ==
    (TemplateReturned /\ ~tpl.ret.err) =>
        /\ Len(tpl.ret.pkgs) = Len(tpl.packages)
        /\ \A k \in 1..Len(tpl.packages) :
              /\ Keys(tpl.packages[k]) \subseteq DOMAIN tpl.params
              /\ tpl.ret.pkgs[k] = Substituted(tpl.packages[k], tpl.params)
        /\ tpl.ret.packages = tpl.packages

\* The part of C13 that the code keeps: the same, for calls whose entries
\* name only keys that params has.
C13_WhenKeysPresent ==
    (TemplateReturned /\ ~tpl.ret.err
     /\ \A k \in 1..Len(tpl.packages) : Keys(tpl.packages[k]) \subseteq DOMAIN tpl.params)
    =>
        /\ Len(tpl.ret.pkgs) = Len(tpl.packages)
        /\ \A k \in 1..Len(tpl.packages) :
              tpl.ret.pkgs[k] = Substituted(tpl.packages[k], tpl.params)
        /\ (tpl.packages = <<"linux-image-generic-hwe-{{.version}}">>
            /\ tpl.params = [key \in {"version"} |-> "24.04"])
           => tpl.ret.pkgs = <<"linux-image-generic-hwe-24.04">>

\* ---- Missing combinations, duplicates, configuration, Ubuntu kernel (C14, C16 to C18) ----

\* A lookup whose (selector, architecture) combination the catalog does not have.
Missing(lookup) ==
    LET packageMap == PackageMap(impl, lookup.catalog)
    IN  \/ lookup.selector \notin DOMAIN packageMap
        \/ lookup.arch \notin DOMAIN packageMap[lookup.selector]

\* The lookups of the call that find a map with an entry the version matches.
Contributing ==
    {j \in DOMAIN ExpectedLookups :
        /\ ~Missing(ExpectedLookups[j])
        /\ LET l == ExpectedLookups[j]
           IN  MatchedEntries(PackageMap(impl, l.catalog)[l.selector][l.arch],
                              s.Version) # {}}

\* C14: for a version that parses, a lookup whose combination of catalog,
\* distro or family, and architecture is missing adds nothing and is no
\* error: the other lookups are still made and add their lists, the call
\* returns a nil error, and a System that matches no entry at all gets
\* exactly CommonPackages.
C14_MissingCombination ==
    (HasReturned /\ Parses(s.Version)) =>
        /\ ~LastReturn.err
        /\ Len(LastReturn.contrib) = Len(ExpectedLookups)
        /\ \A j \in DOMAIN ExpectedLookups :
              LET l == ExpectedLookups[j]
              IN  IF Missing(l)
                  THEN LastReturn.contrib[j] = <<>>
                  ELSE LET packages == PackageMap(impl, l.catalog)[l.selector][l.arch]
                       IN  LastReturn.contrib[j] \in
                               Arrangements(packages, MatchedEntries(packages, s.Version))
        /\ Contributing = {} => LastReturn.pkgs = CommonPackages(impl)

\* C14 witness: a call returned whose first lookup hit a missing combination
\* and whose later lookups added packages.
C14_Witness ==
    /\ Succeeded /\ Parses(s.Version)
    /\ Missing(ExpectedLookups[1])
    /\ \E j \in DOMAIN ExpectedLookups :
           ~Missing(ExpectedLookups[j]) /\ LastReturn.contrib[j] # <<>>

Count(seq, x) == Cardinality({k \in DOMAIN seq : seq[k] = x})

\* Every package list of the call whose key matched, one after the other.
AllMatched ==
    Flatten([j \in DOMAIN ExpectedLookups |->
                LET packages == Deref(impl, ExpectedLookups[j])
                IN  Declared(packages, MatchedEntries(packages, s.Version), 1)])

\* C16: the merge appends and never de-duplicates: for a version that parses,
\* the output is as long as CommonPackages and all the matched lists
\* together, and every name occurs in it as many times as it occurs in
\* CommonPackages and the matched lists.
C16_AppendOnly ==
    (Succeeded /\ Parses(s.Version)) =>
        LET out == LastReturn.pkgs
            all == CommonPackages(impl) \o AllMatched
        IN  /\ Len(out) = Len(CommonPackages(impl)) + Len(AllMatched)
            /\ \A x \in Names(out) \cup Names(all) : Count(out, x) = Count(all, x)

\* C16 witness: a Debian-family call returned iptables twice, once from
\* CommonPackages and once from the family's Base list.
C16_Witness ==
    /\ Succeeded /\ Parses(s.Version)
    /\ s.Family = DebianFamily
    /\ Count(CommonPackages(impl), "iptables") = 1
    /\ Count(LastReturn.pkgs, "iptables") = 2

\* C17: the list returned does not depend on config.DefaultConfig: two calls
\* with the same System made under different values of the configuration
\* return the same list.
C17_NoAmbientState ==
    \A a, b \in DOMAIN returns :
        returns[a].TrustedBoot # returns[b].TrustedBoot =>
            returns[a].pkgs = returns[b].pkgs

ReturnedList(g) == calls[g].pc \in {"returned", "wrote"} /\ ~calls[g].ret.err

\* C15: resolution never mutates the catalogs: while only GetPackages and
\* FilterPackagesOnConstraint calls run, in any interleaving, the backing
\* array of CommonPackages holds what the literal put there (no append writes
\* into it), and each call returns CommonPackages followed by what it
\* appended itself, the list it returns when it runs alone.
C15_CatalogsReadOnly ==
    (calls # NoCalls /\ \A g \in Goroutines : calls[g].pc # "wrote") =>
        /\ heap[CommonArray] = CommonCells(impl)
        /\ \A g \in Goroutines :
               ReturnedList(g) =>
                   /\ calls[g].ret.pkgs = CommonPackages(impl) \o calls[g].appended
                   /\ SliceValue(heap, calls[g].ret.slice) = calls[g].ret.pkgs

\* C15 witness: one call returned a list longer than CommonPackages while
\* another call is inside its loops and has appended packages too.
C15_Witness ==
    /\ calls # NoCalls
    /\ \E g, o \in Goroutines :
          /\ g # o
          /\ calls[g].pc = "returned" /\ ~calls[g].ret.err
          /\ Len(calls[g].ret.pkgs) > Len(CommonPackages(impl))
          /\ calls[o].pc = "range"
          /\ calls[o].appended # <<>>

\* C19: the slice GetPackages returns never shares its backing array with
\* the global CommonPackages, also when nothing is appended, so a caller
\* that overwrites elements of the result leaves CommonPackages, as later
\* calls see it, unchanged.
C19_ResultNotAliased ==
    calls # NoCalls =>
        /\ \A g \in Goroutines :
               ReturnedList(g) => calls[g].ret.slice.array # CommonArray
        /\ SubSeq(heap[CommonArray], 1, Len(CommonPackages(impl))) = CommonPackages(impl)

=============================================================================
